---- MODULE Spec2Model ----
(***************************************************************************)
(* Biomedical papers searcher: the command-line pipeline of                *)
(* browse_papers.py and the window of browse_papers_gui.py.  main() parses *)
(* its arguments, BiomedicalSearcher queries PubMed, bioRxiv and Europe    *)
(* PMC, search_all removes duplicates by title, rank_articles scores and   *)
(* groups the articles, display_results prints them and                    *)
(* DocxExporter.export writes the document.  The window runs the same      *)
(* pipeline on a worker thread started by start_search.                    *)
(*                                                                         *)
(* Text is a sequence of one-character strings, so that lower(), strip(),  *)
(* split(), int(), len() and the `in` substring test are computed and not  *)
(* assumed.                                                                *)
(*                                                                         *)
(* Specifications: Spec is main() with well-formed responses;              *)
(* SpecAdapters is main() with the adapters' failures; SpecConsumers       *)
(* applies the three consumers of a ranked mapping; SpecGUI is the window  *)
(* with its worker threads; SpecNormalize maps one source record.          *)
(***************************************************************************)
EXTENDS Integers, Sequences, FiniteSets, TLC

VARIABLES
    pc,             \* where main() is
    args_keywords,  \* args.keywords, as typed
    args_days,      \* args.days
    keywords,       \* searcher.keywords
    all_articles,   \* search_all: the concatenated adapter results
    articles,       \* main: the list search_all returned
    ranked,         \* main: the mapping rank_articles returned, in key insertion order
    stdout,         \* what display_results printed
    exported,       \* what became of the DOCX export
    exit_status,    \* main's return value, -1 while it runs
    calls,          \* the adapter invocations so far, in order
    failed,         \* the sources whose request or payload was bad
    document,       \* the score headings DocxExporter.export wrote
    results_text,   \* the score headings perform_search logged
    consumed,       \* the consumers that have read the mapping
    keywords_list,  \* window: self.keywords_list
    keywords_listbox, \* window: the entries of the keyword listbox
    year_mode_var,  \* window: the period mode
    days_var,       \* window: the days field
    is_searching,   \* window: self.is_searching
    search_button,  \* window: state of the search button
    cancel_button,  \* window: state of the cancel button
    progress_active, \* window: self.progress_active
    after_queue,    \* window: search_complete callbacks root.after has queued
    workers,        \* window: the perform_search threads started so far
    source_record,  \* what a source sent: one record, or its whole answer
    normalized      \* what the adapter made of source_record

adapter_vars == <<calls, failed>>

consumer_vars == <<document, results_text, consumed>>

gui_vars == <<keywords_list, keywords_listbox, year_mode_var, days_var,
              is_searching, search_button, cancel_button, progress_active,
              after_queue, workers>>

normalize_vars == <<source_record, normalized>>

main_vars == <<pc, args_keywords, args_days, keywords, all_articles, articles,
               ranked, stdout, exported, exit_status>>

vars == <<main_vars, adapter_vars, consumer_vars, gui_vars, normalize_vars>>

\* ---------------------------------------------------------------- bounds

MaxArticles == 3

MaxKeywords == 2

\* ------------------------------------------------------------------ text

None == <<"None">>

Missing == <<"Missing">>

NA == <<"N", "/", "A">>

NO_ABSTRACT == <<"[", "N", "o", " ", "a", "b", "s", "t", "r", "a", "c", "t", " ",
                 "a", "v", "a", "i", "l", "a", "b", "l", "e", "]">>

Whitespace == {" ", "\t", "\n"}

UpperCase == <<"A", "B", "C", "D", "E", "F", "G", "H", "I", "J", "K", "L", "M",
               "N", "O", "P", "Q", "R", "S", "T", "U", "V", "W", "X", "Y", "Z">>

LowerCase == <<"a", "b", "c", "d", "e", "f", "g", "h", "i", "j", "k", "l", "m",
               "n", "o", "p", "q", "r", "s", "t", "u", "v", "w", "x", "y", "z">>

LowerOf ==
    [u \in {UpperCase[i] : i \in DOMAIN UpperCase} |->
        LowerCase[CHOOSE i \in DOMAIN UpperCase : UpperCase[i] = u]]

LowerChar(c) == IF c \in DOMAIN LowerOf THEN LowerOf[c] ELSE c

\* str.lower()
str_lower(s) == [i \in 1..Len(s) |-> LowerChar(s[i])]

RECURSIVE str_lstrip(_)
str_lstrip(s) ==
    IF s # <<>> /\ Head(s) \in Whitespace THEN str_lstrip(Tail(s)) ELSE s

RECURSIVE str_rstrip(_)
str_rstrip(s) ==
    IF s # <<>> /\ s[Len(s)] \in Whitespace
    THEN str_rstrip(SubSeq(s, 1, Len(s) - 1))
    ELSE s

\* str.strip()
str_strip(s) == str_rstrip(str_lstrip(s))

\* sub in s
str_in(sub, s) ==
    \E i \in 0..(Len(s) - Len(sub)) : SubSeq(s, i + 1, i + Len(sub)) = sub

\* bool(s) of a text or None
truthy(s) == s # None /\ s # <<>>

RECURSIVE str_join(_, _)
str_join(sep, parts) ==
    IF parts = <<>> THEN <<>>
    ELSE IF Len(parts) = 1 THEN parts[1]
    ELSE parts[1] \o sep \o str_join(sep, Tail(parts))

SeqsUpTo(S, n) == UNION {[1..k -> S] : k \in 0..n}

\* ---------------------------------------------------------------- inputs

KwP53 == <<"P", "5", "3">>
KwCancer == <<"c", "a", "n", "c", "e", "r">>

StudyX == <<"S", "t", "u", "d", "y", " ", "X">>
StudyXPadded == <<"s", "t", "u", "d", "y", " ", "x", " ">>
StudyXUpper == <<"S", "T", "U", "D", "Y", " ", "X">>
Blank == <<" ">>
NAPadded == <<"N", "/", "A", " ">>
P53Title == <<"p", "5", "3", " ", "m", "u", "t", "a", "t", "i", "o", "n", " ",
              "i", "n", " ", "b", "r", "e", "a", "s", "t", " ",
              "c", "a", "n", "c", "e", "r">>
GeneTherapy == <<"G", "e", "n", "e", " ", "t", "h", "e", "r", "a", "p", "y">>
AbsP53 == <<"p", "5", "3">>
AbsCancer == <<"C", "a", "n", "c", "e", "r">>
AbsBoth == <<"P", "5", "3", " ", "c", "a", "n", "c", "e", "r">>
AbsBothRev == <<"c", "a", "n", "c", "e", "r", " ", "p", "5", "3">>

\* --keywords takes one or more words (nargs='+'), repeats included
KeywordSet == {KwP53, KwCancer}

KeywordLists == SeqsUpTo(KeywordSet, MaxKeywords) \ {<<>>}

DaysSet == {0, 30}

\* <PubmedArticle> elements: the ArticleTitle text (None for an element
\* without text, Missing for no element), the AbstractText texts, the date
PubMedRecords == {
    [title |-> Missing, abstract |-> <<AbsBoth>>, date |-> 3],
    [title |-> None, abstract |-> <<>>, date |-> 2],
    [title |-> StudyX, abstract |-> <<AbsP53>>, date |-> 1],
    [title |-> StudyX, abstract |-> <<AbsP53, AbsCancer>>, date |-> 2]}

\* entries of bioRxiv's "collection"
BioRxivRecords == {
    [title |-> StudyXPadded, abstract |-> AbsBothRev, date |-> 3],
    [title |-> StudyXUpper, abstract |-> AbsCancer, date |-> 1],
    [title |-> Blank, abstract |-> AbsP53, date |-> 3],
    [title |-> GeneTherapy, abstract |-> <<>>, date |-> 3]}

\* entries of Europe PMC's "resultList.result"
EuropePMCRecords == {
    [title |-> P53Title, abstract |-> <<>>, date |-> 1],
    [title |-> NAPadded, abstract |-> AbsP53, date |-> 2],
    [title |-> GeneTherapy, abstract |-> Missing, date |-> 2],
    [title |-> <<>>, abstract |-> AbsCancer, date |-> 1]}

\* -------------------------------------------------------------- adapters

BIORXIV_NO_ABSTRACT == <<"[", "N", "o", " ", "a", "b", "s", "t", "r", "a", "c", "t", "]">>

\* dict.get(key, default) of a parsed JSON object
get(value, default) == IF value = Missing THEN default ELSE value

Article(title, abstract, published, source) ==
    [title |-> title, abstract |-> abstract, published |-> published,
     source |-> source]

\* search_pubmed: one <PubmedArticle> element to an article
pubmed_article(elem) ==
    LET title == IF elem.title = Missing THEN NA ELSE elem.title
        abstract_parts == SelectSeq(elem.abstract, LAMBDA t : t # <<>>)
        abstract == IF abstract_parts # <<>>
                    THEN str_join(<<" ">>, abstract_parts)
                    ELSE NO_ABSTRACT
    IN  Article(title, abstract, elem.date, "PubMed")

search_pubmed(response) ==
    [i \in 1..Len(response) |-> pubmed_article(response[i])]

\* search_biorxiv: the preprints of the period that hold a keyword
biorxiv_has_keyword(kws, paper) ==
    LET title == get(paper.title, NA)
        abstract == get(paper.abstract, BIORXIV_NO_ABSTRACT)
        text_to_search == str_lower(title) \o <<" ">> \o str_lower(abstract)
    IN  \E i \in 1..Len(kws) : str_in(kws[i], text_to_search)

biorxiv_article(paper) ==
    Article(get(paper.title, NA), get(paper.abstract, BIORXIV_NO_ABSTRACT),
            paper.date, "bioRxiv")

search_biorxiv(kws, response) ==
    LET kept == SelectSeq(response, LAMBDA p : biorxiv_has_keyword(kws, p))
    IN  [i \in 1..Len(kept) |-> biorxiv_article(kept[i])]

\* search_europepmc: one result to an article
europepmc_article(paper) ==
    Article(get(paper.title, NA), get(paper.abstract, NO_ABSTRACT),
            paper.date, "Europe PMC")

search_europepmc(response) ==
    [i \in 1..Len(response) |-> europepmc_article(response[i])]

\* ----------------------------------------------------------- search_all

\* `unique` is the dict of search_all: its entries in key insertion order
has_key(unique, key) == \E i \in 1..Len(unique) : unique[i].key = key

index_of(unique, key) == CHOOSE i \in 1..Len(unique) : unique[i].key = key

\* a variant that forgets strip()
title_clean_of_lower_only(title) == str_lower(title)

\* title.lower().strip()
title_clean_of(title) == str_strip(str_lower(title))

\* a variant that forgets the 'N/A' sentinel
no_valid_title_empty_only(title) == ~truthy(title)

\* the test that skips an article without a valid title
no_valid_title(title) == ~truthy(title) \/ title = NA

\* a variant that compares with >= : the last of the longest is kept
keeps_incoming_or_equal(unique, title_clean, abstract) ==
    \/ ~has_key(unique, title_clean)
    \/ Len(abstract) >= Len(unique[index_of(unique, title_clean)].art.abstract)

\* a variant without the comparison: the last article of a key is kept
keeps_incoming_always(unique, title_clean, abstract) == TRUE

\* the test that stores the article under its key
keeps_incoming(unique, title_clean, abstract) ==
    \/ ~has_key(unique, title_clean)
    \/ Len(abstract) > Len(unique[index_of(unique, title_clean)].art.abstract)

\* unique[title_clean] = art
dict_set(unique, key, art) ==
    IF has_key(unique, key)
    THEN [unique EXCEPT ![index_of(unique, key)] = [key |-> key, art |-> art]]
    ELSE Append(unique, [key |-> key, art |-> art])

\* a variant that stores the article with its title trimmed
dedup_step_trimming(unique, art) ==
    LET title == art.title IN
    IF no_valid_title(title) THEN unique
    ELSE LET title_clean == title_clean_of(title)
             abstract == art.abstract
         IN  IF keeps_incoming(unique, title_clean, abstract)
             THEN dict_set(unique, title_clean,
                           [art EXCEPT !.title = str_strip(title)])
             ELSE unique

\* one pass of the loop over all_articles
dedup_step(unique, art) ==
    LET title == art.title IN
    IF no_valid_title(title) THEN unique
    ELSE LET title_clean == title_clean_of(title)
             abstract == art.abstract
         IN  IF keeps_incoming(unique, title_clean, abstract)
             THEN dict_set(unique, title_clean, art)
             ELSE unique

RECURSIVE dedup_loop(_, _)
dedup_loop(unique, arts) ==
    IF arts = <<>> THEN unique
    ELSE dedup_loop(dedup_step(unique, Head(arts)), Tail(arts))

\* the key is in unique and len() is taken of an abstract that is None
dedup_raises_at(unique, art) ==
    /\ ~no_valid_title(art.title)
    /\ has_key(unique, title_clean_of(art.title))
    /\ \/ art.abstract = None
       \/ unique[index_of(unique, title_clean_of(art.title))].art.abstract = None

RECURSIVE dedup_raises(_, _)
dedup_raises(unique, arts) ==
    IF arts = <<>> THEN FALSE
    ELSE \/ dedup_raises_at(unique, Head(arts))
         \/ dedup_raises(dedup_step(unique, Head(arts)), Tail(arts))

\* the loop over all_articles raises TypeError
search_all_raises(arts) == dedup_raises(<<>>, arts)

\* list(unique.values())
deduplicate(arts) ==
    LET unique == dedup_loop(<<>>, arts)
    IN  [i \in 1..Len(unique) |-> unique[i].art]

\* ------------------------------------------- calculate_score, rank_articles

\* a variant that looks at the title only
keyword_matches_title_only(keyword, title_lower, abstract_lower) ==
    str_in(keyword, title_lower)

keyword_matches(keyword, title_lower, abstract_lower) ==
    str_in(keyword, title_lower) \/ str_in(keyword, abstract_lower)

\* the list of matched keywords; the score is its length
calculate_score(kws, article) ==
    LET title == article.title
        abstract == article.abstract
        title_lower == IF truthy(title) THEN str_lower(title) ELSE <<>>
        abstract_lower == IF truthy(abstract) THEN str_lower(abstract) ELSE <<>>
        matched_keywords ==
            SelectSeq(kws, LAMBDA keyword :
                keyword_matches(keyword, title_lower, abstract_lower))
    IN  [score |-> Len(matched_keywords), matched_kws |-> matched_keywords]

\* a variant that stores the lower-cased title with the score
scored_lowering(article, result) ==
    [score |-> result.score, matched_keywords |-> result.matched_kws]
        @@ [article EXCEPT !.title = str_lower(article.title)]

\* article['score'] = score; article['matched_keywords'] = matched_kws
scored(article, result) ==
    [score |-> result.score, matched_keywords |-> result.matched_kws] @@ article

\* a variant that ranks the articles without a match too
is_ranked_or_zero(score) == score >= 0

is_ranked(score) == score > 0

has_group(groups, score) == \E i \in 1..Len(groups) : groups[i].score = score

\* a variant that assigns ranked[score] = [article]
group_append_overwriting(groups, score, article) ==
    IF has_group(groups, score)
    THEN [i \in 1..Len(groups) |->
            IF groups[i].score = score
            THEN [score |-> score, articles |-> <<article>>]
            ELSE groups[i]]
    ELSE Append(groups, [score |-> score, articles |-> <<article>>])

\* ranked[score].append(article), on a defaultdict(list)
group_append(groups, score, article) ==
    IF has_group(groups, score)
    THEN [i \in 1..Len(groups) |->
            IF groups[i].score = score
            THEN [score |-> score, articles |-> Append(groups[i].articles, article)]
            ELSE groups[i]]
    ELSE Append(groups, [score |-> score, articles |-> <<article>>])

RECURSIVE rank_loop(_, _, _)
rank_loop(kws, groups, arts) ==
    IF arts = <<>> THEN groups
    ELSE LET result == calculate_score(kws, Head(arts))
         IN  rank_loop(kws,
                       IF is_ranked(result.score)
                       THEN group_append(groups, result.score, scored(Head(arts), result))
                       ELSE groups,
                       Tail(arts))

\* a variant without reverse=True
sorts_before_ascending(x, y) == x.published < y.published

\* a variant that puts an article before those of its own date
sorts_before_or_equal(x, y) == x.published >= y.published

\* key=lambda x: x['published'], reverse=True: x goes before y
sorts_before(x, y) == x.published > y.published

\* list.sort is stable: an article goes behind those it does not sort before
sort_insert(sorted, x) ==
    LET before == {i \in 1..Len(sorted) : sorts_before(x, sorted[i])}
        at == IF before = {} THEN Len(sorted) + 1
              ELSE CHOOSE i \in before : \A j \in before : i <= j
    IN  SubSeq(sorted, 1, at - 1) \o <<x>> \o SubSeq(sorted, at, Len(sorted))

RECURSIVE sort_group(_)
sort_group(arts) ==
    IF arts = <<>> THEN <<>>
    ELSE sort_insert(sort_group(SubSeq(arts, 1, Len(arts) - 1)), arts[Len(arts)])

rank_articles(kws, arts) ==
    LET groups == rank_loop(kws, <<>>, arts)
    IN  [i \in 1..Len(groups) |->
            [score |-> groups[i].score, articles |-> sort_group(groups[i].articles)]]

\* the input list after rank_articles: the articles are scored in place
articles_after_rank(kws, arts) ==
    [i \in 1..Len(arts) |->
        LET result == calculate_score(kws, arts[i])
        IN  IF is_ranked(result.score) THEN scored(arts[i], result) ELSE arts[i]]

\* ------------------------------------------------ display_results, export

RECURSIVE sum_len(_)
sum_len(groups) ==
    IF groups = <<>> THEN 0
    ELSE Len(Head(groups).articles) + sum_len(Tail(groups))

\* a variant that visits the keys from the lowest to the highest
RECURSIVE sorted_ascending(_)
sorted_ascending(keys) ==
    IF keys = {} THEN <<>>
    ELSE LET low == CHOOSE k \in keys : \A j \in keys : k <= j
         IN  <<low>> \o sorted_ascending(keys \ {low})

\* sorted(ranked_articles.keys(), reverse=True)
RECURSIVE sorted_reverse(_)
sorted_reverse(keys) ==
    IF keys = {} THEN <<>>
    ELSE LET top == CHOOSE k \in keys : \A j \in keys : j <= k
         IN  <<top>> \o sorted_reverse(keys \ {top})

group_keys(groups) == {groups[i].score : i \in 1..Len(groups)}

\* the lines display_results prints: the message for an empty mapping, or
\* the total and then one header for each score group
display_results(ranked_articles) ==
    IF ranked_articles = <<>>
    THEN <<[line |-> "no_articles", n |-> 0]>>
    ELSE LET total_articles == sum_len(ranked_articles)
             order == sorted_reverse(group_keys(ranked_articles))
         IN  <<[line |-> "total", n |-> total_articles]>>
             \o [i \in 1..Len(order) |-> [line |-> "matches", n |-> order[i]]]

\* a variant without the early return for an empty mapping
export_without_empty_check(ranked_articles, can_save) ==
    IF can_save THEN "saved" ELSE "raised"

\* DocxExporter.export: None for an empty mapping, else the file is saved,
\* which raises when the folder or the file cannot be written
export(ranked_articles, can_save) ==
    IF ranked_articles = <<>> THEN "none"
    ELSE IF can_save THEN "saved" ELSE "raised"

\* ------------------------------------------------------------------ main

\* the parts of the state a specification does not use stay as they are here
NoMain ==
    /\ pc = "idle"
    /\ args_keywords = <<>>
    /\ args_days = 0
    /\ keywords = <<>>
    /\ all_articles = <<>>
    /\ articles = <<>>
    /\ ranked = <<>>
    /\ stdout = <<>>
    /\ exported = "no"
    /\ exit_status = -1

NoAdapterLog == calls = <<>> /\ failed = {}

NoConsumer == document = <<>> /\ results_text = <<>> /\ consumed = {}

NoWindow ==
    /\ keywords_list = <<>>
    /\ keywords_listbox = <<>>
    /\ year_mode_var = "days"
    /\ days_var = 30
    /\ is_searching = FALSE
    /\ search_button = "normal"
    /\ cancel_button = "disabled"
    /\ progress_active = FALSE
    /\ after_queue = 0
    /\ workers = <<>>

NoRecord == source_record = <<>> /\ normalized = <<>>

Init ==
    /\ pc = "parse_args"
    /\ args_keywords \in KeywordLists
    /\ args_days \in DaysSet
    /\ keywords = <<>>
    /\ all_articles = <<>>
    /\ articles = <<>>
    /\ ranked = <<>>
    /\ stdout = <<>>
    /\ exported = "no"
    /\ exit_status = -1
    /\ NoAdapterLog /\ NoConsumer /\ NoWindow /\ NoRecord

\* parser.error() leaves with status 2
RejectArgs ==
    /\ pc = "parse_args"
    /\ args_days <= 0 \/ args_keywords = <<>>
    /\ pc' = "done"
    /\ exit_status' = 2
    /\ UNCHANGED <<args_keywords, args_days, keywords, all_articles, articles,
                   ranked, stdout, exported>>
    /\ UNCHANGED <<adapter_vars, consumer_vars, gui_vars, normalize_vars>>

\* BiomedicalSearcher(keywords=args.keywords, days=args.days)
NewSearcher ==
    /\ pc = "parse_args"
    /\ ~(args_days <= 0 \/ args_keywords = <<>>)
    /\ keywords' = [i \in 1..Len(args_keywords) |-> str_lower(args_keywords[i])]
    /\ pc' = "search_pubmed"
    /\ UNCHANGED <<args_keywords, args_days, all_articles, articles, ranked,
                   stdout, exported, exit_status>>
    /\ UNCHANGED <<adapter_vars, consumer_vars, gui_vars, normalize_vars>>

\* search_all: all_articles.extend(self.search_pubmed())
SearchPubMed ==
    /\ pc = "search_pubmed"
    /\ \E response \in SeqsUpTo(PubMedRecords, MaxArticles - Len(all_articles)) :
            all_articles' = all_articles \o search_pubmed(response)
    /\ pc' = "search_biorxiv"
    /\ UNCHANGED <<args_keywords, args_days, keywords, articles, ranked, stdout,
                   exported, exit_status>>
    /\ UNCHANGED <<adapter_vars, consumer_vars, gui_vars, normalize_vars>>

\* search_all: all_articles.extend(self.search_biorxiv())
SearchBioRxiv ==
    /\ pc = "search_biorxiv"
    /\ \E response \in SeqsUpTo(BioRxivRecords, MaxArticles - Len(all_articles)) :
            all_articles' = all_articles \o search_biorxiv(keywords, response)
    /\ pc' = "search_europepmc"
    /\ UNCHANGED <<args_keywords, args_days, keywords, articles, ranked, stdout,
                   exported, exit_status>>
    /\ UNCHANGED <<adapter_vars, consumer_vars, gui_vars, normalize_vars>>

\* search_all: all_articles.extend(self.search_europepmc())
SearchEuropePMC ==
    /\ pc = "search_europepmc"
    /\ \E response \in SeqsUpTo(EuropePMCRecords, MaxArticles - Len(all_articles)) :
            all_articles' = all_articles \o search_europepmc(response)
    /\ pc' = "deduplicate"
    /\ UNCHANGED <<args_keywords, args_days, keywords, articles, ranked, stdout,
                   exported, exit_status>>
    /\ UNCHANGED <<adapter_vars, consumer_vars, gui_vars, normalize_vars>>

\* search_all: remove duplicates by title and return
Deduplicate ==
    /\ pc = "deduplicate"
    /\ ~search_all_raises(all_articles)
    /\ articles' = deduplicate(all_articles)
    /\ pc' = "rank_articles"
    /\ UNCHANGED <<args_keywords, args_days, keywords, all_articles, ranked,
                   stdout, exported, exit_status>>
    /\ UNCHANGED <<adapter_vars, consumer_vars, gui_vars, normalize_vars>>

\* ranked = searcher.rank_articles(articles)
RankArticles ==
    /\ pc = "rank_articles"
    /\ ranked' = rank_articles(keywords, articles)
    /\ articles' = articles_after_rank(keywords, articles)
    /\ pc' = "display_results"
    /\ UNCHANGED <<args_keywords, args_days, keywords, all_articles, stdout,
                   exported, exit_status>>
    /\ UNCHANGED <<adapter_vars, consumer_vars, gui_vars, normalize_vars>>

\* searcher.display_results(ranked)
DisplayResults ==
    /\ pc = "display_results"
    /\ stdout' = display_results(ranked)
    /\ pc' = "export"
    /\ UNCHANGED <<args_keywords, args_days, keywords, all_articles, articles,
                   ranked, exported, exit_status>>
    /\ UNCHANGED <<adapter_vars, consumer_vars, gui_vars, normalize_vars>>

\* main without --export returns 0
ReturnWithoutExport ==
    /\ pc = "export"
    /\ pc' = "done"
    /\ exit_status' = 0
    /\ UNCHANGED <<args_keywords, args_days, keywords, all_articles, articles,
                   ranked, stdout, exported>>
    /\ UNCHANGED <<adapter_vars, consumer_vars, gui_vars, normalize_vars>>

\* main with --export: an exception of the exporter returns 1
ExportAndReturn ==
    /\ pc = "export"
    /\ \E can_save \in BOOLEAN :
            /\ exported' = export(ranked, can_save)
            /\ exit_status' = IF exported' = "raised" THEN 1 ELSE 0
    /\ pc' = "done"
    /\ UNCHANGED <<args_keywords, args_days, keywords, all_articles, articles,
                   ranked, stdout>>
    /\ UNCHANGED <<adapter_vars, consumer_vars, gui_vars, normalize_vars>>

Next ==
    \/ RejectArgs
    \/ NewSearcher
    \/ SearchPubMed
    \/ SearchBioRxiv
    \/ SearchEuropePMC
    \/ Deduplicate
    \/ RankArticles
    \/ DisplayResults
    \/ ReturnWithoutExport
    \/ ExportAndReturn

Spec == Init /\ [][Next]_vars

\* ---------------------------------------- the consumers of a ranked mapping

\* searcher.keywords of a query for P53, cancer and gene
ConsumerKeywords == <<str_lower(KwP53), KwCancer, <<"g", "e", "n", "e">>>>

\* articles that hold one, two and three of these keywords
ConsumerArticles == {
    Article(GeneTherapy, <<>>, 1, "bioRxiv"),
    Article(P53Title, <<>>, 2, "Europe PMC"),
    Article(GeneTherapy, AbsBoth, 3, "PubMed")}

\* the mappings rank_articles returns for them: the keys are inserted in the
\* order in which the scores first occur in the list
RankedMappings ==
    {rank_articles(ConsumerKeywords, arts) :
        arts \in SeqsUpTo(ConsumerArticles, MaxArticles)}

\* DocxExporter.export: the group headings of the document, none for an
\* empty mapping
export_headings(ranked_articles) ==
    IF ranked_articles = <<>> THEN <<>>
    ELSE LET order == sorted_reverse(group_keys(ranked_articles))
         IN  [i \in 1..Len(order) |-> [line |-> "heading", n |-> order[i]]]

\* perform_search: the total and then one header for each score group
log_results(ranked_articles) ==
    LET total == sum_len(ranked_articles)
        order == sorted_reverse(group_keys(ranked_articles))
    IN  <<[line |-> "total", n |-> total]>>
        \o [i \in 1..Len(order) |-> [line |-> "matches", n |-> order[i]]]

InitConsumers ==
    /\ pc = "idle"
    /\ args_keywords = <<>>
    /\ args_days = 0
    /\ keywords = ConsumerKeywords
    /\ all_articles = <<>>
    /\ articles = <<>>
    /\ ranked \in RankedMappings
    /\ stdout = <<>>
    /\ exported = "no"
    /\ exit_status = -1
    /\ NoAdapterLog /\ NoConsumer /\ NoWindow /\ NoRecord

\* searcher.display_results(ranked)
ConsumeDisplay ==
    /\ "display_results" \notin consumed
    /\ stdout' = display_results(ranked)
    /\ consumed' = consumed \cup {"display_results"}
    /\ UNCHANGED <<pc, args_keywords, args_days, keywords, all_articles,
                   articles, ranked, exported, exit_status>>
    /\ UNCHANGED <<document, results_text>>
    /\ UNCHANGED <<adapter_vars, gui_vars, normalize_vars>>

\* exporter.export(ranked)
ConsumeExport ==
    /\ "export" \notin consumed
    /\ document' = export_headings(ranked)
    /\ consumed' = consumed \cup {"export"}
    /\ UNCHANGED <<main_vars, results_text>>
    /\ UNCHANGED <<adapter_vars, gui_vars, normalize_vars>>

\* perform_search: the RESULTS block of the log
ConsumeLog ==
    /\ "perform_search" \notin consumed
    /\ results_text' = log_results(ranked)
    /\ consumed' = consumed \cup {"perform_search"}
    /\ UNCHANGED <<main_vars, document>>
    /\ UNCHANGED <<adapter_vars, gui_vars, normalize_vars>>

NextConsumers == ConsumeDisplay \/ ConsumeExport \/ ConsumeLog

SpecConsumers == InitConsumers /\ [][NextConsumers]_vars

\* ------------------------------------------------------ adapter failures

\* what a request of an adapter comes to: a 200 response that decodes, an
\* exception of requests.get, another status code, a body that does not
\* decode or does not have the fields' types
Outcomes == {"ok", "network_error", "bad_status", "malformed"}

PubMedPayload == {r \in PubMedRecords : r.title = StudyX}

\* with a preprint whose "title" is null
BioRxivPayload ==
    {r \in BioRxivRecords : r.title = StudyXPadded}
        \cup {[title |-> None, abstract |-> AbsP53, date |-> 2]}

\* with a result whose "abstractText" is null
EuropePMCPayload ==
    {r \in EuropePMCRecords : r.title = P53Title}
        \cup {[title |-> StudyX, abstract |-> None, date |-> 3]}

null_field(paper) == paper.title = None \/ paper.abstract = None

\* the responses that go with an outcome: a failed request has no payload,
\* a malformed one does not decode (no records) or has a null field
payload_of(outcome, response) ==
    LET nulls == \E i \in 1..Len(response) : null_field(response[i])
    IN  CASE outcome = "ok" -> ~nulls
          [] outcome = "malformed" -> response = <<>> \/ nulls
          [] OTHER -> response = <<>>

\* the efetch requests one search_pubmed makes, 50 ids each
MaxBatches == 2

\* what the efetch requests come to: a batch that does not parse and a batch
\* whose request fails have no elements
PubMedBatches(room) ==
    LET Batch == {b \in [outcome : Outcomes,
                         response : SeqsUpTo(PubMedPayload, room)] :
                    b.outcome = "ok" \/ b.response = <<>>}
        RECURSIVE elements(_)
        elements(batches) ==
            IF batches = <<>> THEN <<>>
            ELSE Head(batches).response \o elements(Tail(batches))
    IN  {batches \in SeqsUpTo(Batch, MaxBatches) :
            Len(elements(batches)) <= room}

\* the loop ends at the first batch that is not answered
RECURSIVE fetch_batches_until_failure(_)
fetch_batches_until_failure(batches) ==
    IF batches = <<>> \/ Head(batches).outcome # "ok" THEN <<>>
    ELSE search_pubmed(Head(batches).response)
            \o fetch_batches_until_failure(Tail(batches))

\* search_pubmed, the loop over the batches: a status other than 200 and an
\* ET.ParseError skip the batch, an exception of requests.get ends the loop,
\* and the articles appended so far stay in the list
RECURSIVE fetch_batches(_)
fetch_batches(batches) ==
    IF batches = <<>> THEN <<>>
    ELSE LET batch == Head(batches)
         IN  CASE batch.outcome = "ok" ->
                    search_pubmed(batch.response) \o fetch_batches(Tail(batches))
               [] batch.outcome = "network_error" -> <<>>
               [] OTHER -> fetch_batches(Tail(batches))

\* search_pubmed: a failure of esearch leaves articles = []
pubmed_result(outcome, batches) ==
    IF outcome = "ok" THEN fetch_batches(batches) ELSE <<>>

\* the requests of a search_pubmed that were made and failed
pubmed_failures(outcome, batches) ==
    LET made == {i \in 1..Len(batches) :
                    \A j \in 1..(i - 1) : batches[j].outcome # "network_error"}
    IN  ({outcome} \cup {batches[i].outcome : i \in made}) \ {"ok"}

\* the records before the first one on which title.lower() or
\* abstract.lower() raises
RECURSIVE readable_prefix(_)
readable_prefix(response) ==
    IF response = <<>> \/ null_field(Head(response)) THEN <<>>
    ELSE <<Head(response)>> \o readable_prefix(Tail(response))

\* search_biorxiv: an exception ends the loop and the articles appended
\* before it are returned
biorxiv_result(kws, outcome, response) ==
    IF outcome \in {"network_error", "bad_status"} THEN <<>>
    ELSE search_biorxiv(kws, readable_prefix(response))

\* search_europepmc: title and abstractText are stored as they come
europepmc_result(outcome, response) ==
    IF outcome \in {"network_error", "bad_status"} THEN <<>>
    ELSE search_europepmc(response)

\* search_all: all_articles.extend(self.search_pubmed())
FetchPubMed ==
    /\ pc = "search_pubmed"
    /\ \E outcome \in Outcomes,
          batches \in PubMedBatches(MaxArticles - Len(all_articles)) :
            /\ outcome = "ok" \/ batches = <<>>
            /\ all_articles' = all_articles \o pubmed_result(outcome, batches)
            /\ failed' = failed \cup {<<"PubMed", o>> :
                                        o \in pubmed_failures(outcome, batches)}
            /\ source_record' = [outcome |-> outcome, response |-> batches]
            /\ normalized' = pubmed_result(outcome, batches)
    /\ calls' = Append(calls, [adapter |-> "PubMed", keywords |-> keywords,
                              days |-> args_days])
    /\ pc' = "search_biorxiv"
    /\ UNCHANGED <<args_keywords, args_days, keywords, articles, ranked, stdout,
                   exported, exit_status>>
    /\ UNCHANGED <<consumer_vars, gui_vars>>

\* search_all: all_articles.extend(self.search_biorxiv())
FetchBioRxiv ==
    /\ pc = "search_biorxiv"
    /\ \E outcome \in Outcomes,
          response \in SeqsUpTo(BioRxivPayload, MaxArticles - Len(all_articles)) :
            /\ payload_of(outcome, response)
            /\ all_articles' =
                    all_articles \o biorxiv_result(keywords, outcome, response)
            /\ failed' = IF outcome = "ok" THEN failed
                       ELSE failed \cup {<<"bioRxiv", outcome>>}
            /\ source_record' = [outcome |-> outcome, response |-> response]
            /\ normalized' = biorxiv_result(keywords, outcome, response)
    /\ calls' = Append(calls, [adapter |-> "bioRxiv", keywords |-> keywords,
                              days |-> args_days])
    /\ pc' = "search_europepmc"
    /\ UNCHANGED <<args_keywords, args_days, keywords, articles, ranked, stdout,
                   exported, exit_status>>
    /\ UNCHANGED <<consumer_vars, gui_vars>>

\* search_all: all_articles.extend(self.search_europepmc())
FetchEuropePMC ==
    /\ pc = "search_europepmc"
    /\ \E outcome \in Outcomes,
          response \in SeqsUpTo(EuropePMCPayload, MaxArticles - Len(all_articles)) :
            /\ payload_of(outcome, response)
            /\ all_articles' = all_articles \o europepmc_result(outcome, response)
            /\ failed' = IF outcome = "ok" THEN failed
                       ELSE failed \cup {<<"Europe PMC", outcome>>}
            /\ source_record' = [outcome |-> outcome, response |-> response]
            /\ normalized' = europepmc_result(outcome, response)
    /\ calls' = Append(calls, [adapter |-> "Europe PMC", keywords |-> keywords,
                              days |-> args_days])
    /\ pc' = "deduplicate"
    /\ UNCHANGED <<args_keywords, args_days, keywords, articles, ranked, stdout,
                   exported, exit_status>>
    /\ UNCHANGED <<consumer_vars, gui_vars>>

\* search_all raises in its loop: main prints the error and returns 1
SearchAllRaises ==
    /\ pc = "deduplicate"
    /\ search_all_raises(all_articles)
    /\ pc' = "done"
    /\ exit_status' = 1
    /\ UNCHANGED <<args_keywords, args_days, keywords, all_articles, articles,
                   ranked, stdout, exported>>
    /\ UNCHANGED <<adapter_vars, consumer_vars, gui_vars, normalize_vars>>

NextAdapters ==
    \/ RejectArgs
    \/ NewSearcher
    \/ FetchPubMed
    \/ FetchBioRxiv
    \/ FetchEuropePMC
    \/ Deduplicate
    \/ SearchAllRaises
    \/ RankArticles

SpecAdapters == Init /\ [][NextAdapters]_vars

\* ------------------------------------------------------------ the window

MaxSearches == 2

\* datetime.now(): the day of the run
Now == [year |-> 2026, month |-> 11, day |-> 6]

\* self.years_back_var = tk.IntVar(value=1)
years_back_var == 1

\* self.start_year_var and self.end_year_var start at the current year
start_year_var == Now.year

end_year_var == Now.year

\* a variant in which a disabled button still runs its command
clickable_always(state) == TRUE

\* a tk.Button runs its command unless its state is 'disabled'
clickable(state) == state = "normal"

\* ModernDarkGUI.calculate_days
calculate_days(mode, days, years_back, start, end) ==
    CASE mode = "days" -> days
      [] mode = "years" -> years_back * 365
      [] mode = "specific" -> (Now.year - start) * 365 + 30
      [] OTHER -> 30

\* a variant that does not look at the keyword list
validate_inputs_without_keywords(list, mode, start, end, save, has_path) ==
    /\ ~(mode = "specific" /\ start > end)
    /\ ~(save /\ ~has_path)

\* ModernDarkGUI.validate_inputs
validate_inputs(list, mode, start, end, save, has_path) ==
    /\ list # <<>>
    /\ ~(mode = "specific" /\ start > end)
    /\ ~(save /\ ~has_path)

\* a variant with the test the wrong way round
discards_while_searching(searching) == searching

\* a variant that goes on with the results whatever the flag says
discards_never(searching) == FALSE

\* perform_search: `if not self.is_searching: return`
discards(searching) == ~searching

\* a perform_search thread that has just been started: its frame, and what
\* the search has done so far
new_worker ==
    [pc |-> "begin", validated |-> <<>>, keywords |-> <<>>, days |-> 0,
     fetched |-> <<>>, cancelled |-> FALSE, has_ranked |-> FALSE,
     has_logged |-> FALSE, has_exported |-> FALSE, doc_keywords |-> <<>>,
     has_completed |-> FALSE]

\* a thread that has ended: nothing of its frame is left
ended_worker == [new_worker EXCEPT !.pc = "dead"]

Fetching == {"search_pubmed", "search_biorxiv", "search_europepmc"}

\* the period mode the user has chosen and the days typed into the field
InitGUI ==
    /\ NoMain /\ NoAdapterLog /\ NoConsumer /\ NoRecord
    /\ keywords_list = <<>>
    /\ keywords_listbox = <<>>
    /\ year_mode_var \in {"days", "years", "specific"}
    /\ days_var \in DaysSet
    /\ is_searching = FALSE
    /\ search_button = "normal"
    /\ cancel_button = "disabled"
    /\ progress_active = FALSE
    /\ after_queue = 0
    /\ workers = <<>>

\* a variant that takes the empty text too
accepts_unseen(keyword, list) ==
    \A i \in 1..Len(list) : list[i] # keyword

\* add_keyword: `if keyword and keyword not in self.keywords_list`
accepts(keyword, list) ==
    keyword # <<>> /\ \A i \in 1..Len(list) : list[i] # keyword

\* the + button or Return in the keyword field, with `typed` in the field
add_keyword(typed) ==
    /\ LET keyword == str_strip(typed) IN
        IF accepts(keyword, keywords_list)
        THEN /\ keywords_list' = Append(keywords_list, keyword)
             /\ keywords_listbox' = Append(keywords_listbox, keyword)
        ELSE UNCHANGED <<keywords_list, keywords_listbox>>
    /\ UNCHANGED <<year_mode_var, days_var, is_searching, search_button,
                   cancel_button, progress_active, after_queue, workers>>
    /\ UNCHANGED <<main_vars, adapter_vars, consumer_vars, normalize_vars>>

\* del list[index] and Listbox.delete(index)
without(list, index) ==
    [i \in 1..(Len(list) - 1) |-> IF i < index THEN list[i] ELSE list[i + 1]]

\* the remove button, with an entry of the listbox selected
remove_keyword ==
    /\ \E index \in 1..Len(keywords_listbox) :
        /\ keywords_list' = without(keywords_list, index)
        /\ keywords_listbox' = without(keywords_listbox, index)
    /\ UNCHANGED <<year_mode_var, days_var, is_searching, search_button,
                   cancel_button, progress_active, after_queue, workers>>
    /\ UNCHANGED <<main_vars, adapter_vars, consumer_vars, normalize_vars>>

\* the search button: nothing happens when validate_inputs fails
start_search ==
    /\ clickable(search_button)
    /\ Len(workers) < MaxSearches
    /\ \E save, has_path \in BOOLEAN :
        IF validate_inputs(keywords_list, year_mode_var, start_year_var,
                           end_year_var, save, has_path)
        THEN /\ search_button' = "disabled"
             /\ cancel_button' = "normal"
             /\ progress_active' = TRUE
             /\ is_searching' = TRUE
             /\ workers' = Append(workers,
                                  [new_worker EXCEPT !.validated = keywords_list])
        ELSE UNCHANGED <<search_button, cancel_button, progress_active,
                         is_searching, workers>>
    /\ UNCHANGED <<keywords_list, keywords_listbox, year_mode_var, days_var,
                   after_queue>>
    /\ UNCHANGED <<main_vars, adapter_vars, consumer_vars, normalize_vars>>

\* the cancel button
cancel_search ==
    /\ clickable(cancel_button)
    /\ is_searching' = FALSE
    /\ workers' = [w \in 1..Len(workers) |->
                    [workers[w] EXCEPT
                        !.cancelled = @ \/ workers[w].pc \in Fetching]]
    /\ UNCHANGED <<keywords_list, keywords_listbox, year_mode_var, days_var,
                   search_button, cancel_button, progress_active, after_queue>>
    /\ UNCHANGED <<main_vars, adapter_vars, consumer_vars, normalize_vars>>

\* the callback queued by root.after(0, self.search_complete)
search_complete ==
    /\ after_queue > 0
    /\ after_queue' = after_queue - 1
    /\ progress_active' = FALSE
    /\ search_button' = "normal"
    /\ cancel_button' = "disabled"
    /\ is_searching' = FALSE
    /\ UNCHANGED <<keywords_list, keywords_listbox, year_mode_var, days_var,
                   workers>>
    /\ UNCHANGED <<main_vars, adapter_vars, consumer_vars, normalize_vars>>

\* what a step of a worker thread leaves alone
worker_frame ==
    /\ UNCHANGED <<keywords_list, keywords_listbox, year_mode_var, days_var,
                   is_searching, search_button, cancel_button, progress_active>>
    /\ UNCHANGED <<main_vars, failed, consumer_vars, normalize_vars>>

\* perform_search up to BiomedicalSearcher(keywords=self.keywords_list, days=days)
WorkerBegin(w) ==
    /\ workers[w].pc = "begin"
    /\ workers' = [workers EXCEPT
            ![w].days = calculate_days(year_mode_var, days_var, years_back_var,
                                       start_year_var, end_year_var),
            ![w].keywords = [i \in 1..Len(keywords_list) |->
                                str_lower(keywords_list[i])],
            ![w].pc = "search_pubmed"]
    /\ UNCHANGED <<calls, after_queue>>
    /\ worker_frame

\* search_all of the worker's searcher calls one adapter
WorkerFetch(w, at_pc, adapter, next_pc) ==
    /\ workers[w].pc = at_pc
    /\ calls' = Append(calls, [adapter |-> adapter,
                               keywords |-> workers[w].keywords,
                               days |-> workers[w].days])
    /\ workers' = [workers EXCEPT ![w].fetched = Append(@, adapter),
                                  ![w].pc = next_pc]
    /\ UNCHANGED after_queue
    /\ worker_frame

WorkerSearchPubMed(w) ==
    WorkerFetch(w, "search_pubmed", "PubMed", "search_biorxiv")

WorkerSearchBioRxiv(w) ==
    WorkerFetch(w, "search_biorxiv", "bioRxiv", "search_europepmc")

\* the last adapter; search_all then goes through its deduplication loop
WorkerSearchEuropePMC(w) ==
    WorkerFetch(w, "search_europepmc", "Europe PMC", "check")

\* if not self.is_searching: return
WorkerCheck(w) ==
    /\ workers[w].pc = "check"
    /\ workers' = [workers EXCEPT
            ![w].pc = IF discards(is_searching) THEN "finally" ELSE "rank"]
    /\ UNCHANGED <<calls, after_queue>>
    /\ worker_frame

\* ranked = searcher.rank_articles(articles), then the RESULTS block
WorkerRankAndLog(w) ==
    /\ workers[w].pc = "rank"
    /\ workers' = [workers EXCEPT ![w].has_ranked = TRUE,
                                  ![w].has_logged = TRUE,
                                  ![w].pc = "export"]
    /\ UNCHANGED <<calls, after_queue>>
    /\ worker_frame

\* the export, when saving is ticked and a folder is set: the exporter is
\* given self.keywords_list itself; then "[+] Search completed!" is logged
WorkerExport(w) ==
    /\ workers[w].pc = "export"
    /\ \E saving \in BOOLEAN :
        workers' = [workers EXCEPT
            ![w].has_exported = saving,
            ![w].doc_keywords = IF saving THEN keywords_list ELSE <<>>,
            ![w].has_completed = TRUE,
            ![w].pc = "finally"]
    /\ UNCHANGED <<calls, after_queue>>
    /\ worker_frame

\* a variant in which an exception ends the thread at once
WorkerRaises_past_finally(w) ==
    /\ workers[w].pc \in {"begin", "check", "rank", "export"}
    /\ workers' = [workers EXCEPT ![w].pc = "exiting"]
    /\ UNCHANGED <<calls, after_queue>>
    /\ worker_frame

\* an exception in the try block (calculate_days, the loop of search_all,
\* rank_articles and the log, the exporter): the handler logs it
WorkerRaises(w) ==
    /\ workers[w].pc \in {"begin", "check", "rank", "export"}
    /\ workers' = [workers EXCEPT ![w].pc = "finally"]
    /\ UNCHANGED <<calls, after_queue>>
    /\ worker_frame

\* finally: self.root.after(0, self.search_complete)
WorkerFinally(w) ==
    /\ workers[w].pc = "finally"
    /\ after_queue' = after_queue + 1
    /\ workers' = [workers EXCEPT ![w].pc = "exiting"]
    /\ UNCHANGED calls
    /\ worker_frame

\* perform_search returns and the thread ends
WorkerExit(w) ==
    /\ workers[w].pc = "exiting"
    /\ workers' = [workers EXCEPT ![w] = ended_worker]
    /\ UNCHANGED <<calls, after_queue>>
    /\ worker_frame

NextGUI ==
    \/ \E typed \in {KwP53, Blank} : add_keyword(typed)
    \/ remove_keyword
    \/ start_search
    \/ cancel_search
    \/ search_complete
    \/ \E w \in 1..Len(workers) : WorkerBegin(w)
    \/ \E w \in 1..Len(workers) : WorkerSearchPubMed(w)
    \/ \E w \in 1..Len(workers) : WorkerSearchBioRxiv(w)
    \/ \E w \in 1..Len(workers) : WorkerSearchEuropePMC(w)
    \/ \E w \in 1..Len(workers) : WorkerCheck(w)
    \/ \E w \in 1..Len(workers) : WorkerRankAndLog(w)
    \/ \E w \in 1..Len(workers) : WorkerExport(w)
    \/ \E w \in 1..Len(workers) : WorkerRaises(w)
    \/ \E w \in 1..Len(workers) : WorkerFinally(w)
    \/ \E w \in 1..Len(workers) : WorkerExit(w)

SpecGUI == InitGUI /\ [][NextGUI]_vars

\* a step of the thread of search w
worker_step(w) ==
    /\ w \in 1..Len(workers)
    /\ \/ WorkerBegin(w)
       \/ WorkerSearchPubMed(w)
       \/ WorkerSearchBioRxiv(w)
       \/ WorkerSearchEuropePMC(w)
       \/ WorkerCheck(w)
       \/ WorkerRankAndLog(w)
       \/ WorkerExport(w)
       \/ WorkerRaises(w)
       \/ WorkerFinally(w)
       \/ WorkerExit(w)

\* the window as ModernDarkGUI.__init__ leaves it
InitWindow == NoMain /\ NoAdapterLog /\ NoConsumer /\ NoRecord /\ NoWindow

\* a started thread is scheduled until it ends, and the main loop of Tk runs
\* the callbacks it is given
SpecGUILive ==
    /\ InitWindow
    /\ [][NextGUI]_vars
    /\ WF_vars(search_complete)
    /\ \A w \in 1..MaxSearches : WF_vars(worker_step(w))

\* what the user types into the keyword field: keywords, the same with
\* blanks around them or in another case, a blank, nothing
TypedKeywords ==
    {KwP53, <<" ">> \o KwP53 \o <<" ">>, str_lower(KwP53), KwCancer,
     KwCancer \o <<" ">>, GeneTherapy, StudyX, Blank, <<>>}

NextKeywords ==
    \/ \E typed \in TypedKeywords : add_keyword(typed)
    \/ remove_keyword

\* the keyword panel alone
SpecKeywords == InitWindow /\ [][NextKeywords]_vars

\* -------------------------------------------- dates and authors of a record

MaxAuthors == 4

Digits == <<"0", "1", "2", "3", "4", "5", "6", "7", "8", "9">>

all_digits(s) ==
    /\ s # <<>>
    /\ \A i \in 1..Len(s) : \E d \in DOMAIN Digits : Digits[d] = s[i]

RECURSIVE digits_value(_)
digits_value(s) ==
    IF s = <<>> THEN 0
    ELSE LET last == CHOOSE d \in DOMAIN Digits : Digits[d] = s[Len(s)]
         IN  digits_value(SubSeq(s, 1, Len(s) - 1)) * 10 + (last - 1)

\* the digits of a number text, without blanks around it and without its sign
unsigned(text) ==
    LET t == str_strip(text)
    IN  IF t # <<>> /\ t[1] \in {"-", "+"} THEN Tail(t) ELSE t

\* int(text) returns: TypeError for None, ValueError for a text that is no number
int_ok(text) == text # None /\ all_digits(unsigned(text))

\* int(text)
int_of(text) ==
    LET t == str_strip(text)
        n == digits_value(unsigned(text))
    IN  IF t[1] = "-" THEN 0 - n ELSE n

\* the keys of `months` that a three-letter lookup can hit, in calendar order
MonthNames == <<<<"j", "a", "n">>,
                <<"f", "e", "b">>,
                <<"m", "a", "r">>,
                <<"a", "p", "r">>,
                <<"m", "a", "y">>,
                <<"j", "u", "n">>,
                <<"j", "u", "l">>,
                <<"a", "u", "g">>,
                <<"s", "e", "p">>,
                <<"o", "c", "t">>,
                <<"n", "o", "v">>,
                <<"d", "e", "c">>>>

\* BiomedicalSearcher._parse_month, for a text: int(month_str), or
\* months.get(month_str.lower()[:3], 1)
_parse_month(month_str) ==
    IF int_ok(month_str) THEN int_of(month_str)
    ELSE LET lower == str_lower(month_str)
             key == SubSeq(lower, 1, IF Len(lower) < 3 THEN Len(lower) ELSE 3)
         IN  IF \E m \in DOMAIN MonthNames : MonthNames[m] = key
             THEN CHOOSE m \in DOMAIN MonthNames : MonthNames[m] = key
             ELSE 1

\* datetime(year, month, day) does not raise ValueError
datetime_ok(year, month, day) ==
    LET is_leap == (year % 4 = 0 /\ year % 100 # 0) \/ year % 400 = 0
        days_in_month ==
            IF month = 2 THEN (IF is_leap THEN 29 ELSE 28)
            ELSE IF month \in {4, 6, 9, 11} THEN 30 ELSE 31
    IN  /\ year \in 1..9999
        /\ month \in 1..12
        /\ day \in 1..days_in_month

datetime(year, month, day) == [year |-> year, month |-> month, day |-> day]

\* s.split(sep)
RECURSIVE str_split(_, _)
str_split(s, sep) ==
    IF ~str_in(sep, s) THEN <<s>>
    ELSE LET i == CHOOSE k \in 0..(Len(s) - Len(sep)) :
                    /\ SubSeq(s, k + 1, k + Len(sep)) = sep
                    /\ \A j \in 0..(k - 1) : SubSeq(s, j + 1, j + Len(sep)) # sep
         IN  <<SubSeq(s, 1, i)>> \o str_split(SubSeq(s, i + Len(sep) + 1, Len(s)), sep)

\* parts[:3]
first_three(parts) == SubSeq(parts, 1, IF Len(parts) < 3 THEN Len(parts) ELSE 3)

\* datetime.strptime(text, '%Y-%m-%d') returns: four digits, one or two
\* digits, one or two digits, and a day of the calendar
strptime_ok(text) ==
    /\ text # None
    /\ LET parts == str_split(text, <<"-">>)
       IN  /\ Len(parts) = 3
           /\ all_digits(parts[1]) /\ Len(parts[1]) = 4
           /\ all_digits(parts[2]) /\ Len(parts[2]) \in 1..2
           /\ all_digits(parts[3]) /\ Len(parts[3]) \in 1..2
           /\ datetime_ok(digits_value(parts[1]), digits_value(parts[2]),
                          digits_value(parts[3]))

strptime(text) ==
    LET parts == str_split(text, <<"-">>)
    IN  datetime(digits_value(parts[1]), digits_value(parts[2]),
                 digits_value(parts[3]))

\* search_pubmed: the publication date of a <PubmedArticle>; the texts of
\* PubDate/Year, PubDate/Month and PubDate/Day, Missing for no element
pubmed_published(elem) ==
    LET raises == \/ elem.year # Missing /\ ~int_ok(elem.year)
                  \/ elem.month = None
                  \/ elem.day # Missing /\ ~int_ok(elem.day)
        year == IF elem.year # Missing THEN int_of(elem.year) ELSE Now.year
        month == _parse_month(IF elem.month # Missing THEN elem.month ELSE <<"1">>)
        day == IF elem.day # Missing THEN int_of(elem.day) ELSE 1
    IN  IF raises THEN Now
        ELSE IF ~datetime_ok(year, month, day) THEN Now
        ELSE datetime(year, month, day)

\* search_pubmed: f"{forename.text} {name}", or the LastName alone
author_name(author) ==
    IF author.forename # Missing
    THEN author.forename \o <<" ">> \o author.lastname
    ELSE author.lastname

\* search_pubmed: the names of those of the first three <Author> elements
\* that have a LastName
pubmed_authors(elem) ==
    LET named == SelectSeq(first_three(elem.authors),
                           LAMBDA author : author.lastname # Missing)
        authors == [i \in 1..Len(named) |-> author_name(named[i])]
    IN  IF authors # <<>> THEN authors ELSE <<NA>>

\* search_biorxiv and search_europepmc: strptime or the current date
json_published(date_str) ==
    IF strptime_ok(date_str) THEN strptime(date_str) ELSE Now

\* search_biorxiv: [a.strip() for a in authors_str.split(';')[:3]]
biorxiv_authors(paper) ==
    LET authors_str == get(paper.authors, NA)
        parts == first_three(str_split(authors_str, <<";">>))
    IN  [i \in 1..Len(parts) |-> str_strip(parts[i])]

\* search_europepmc: paper.get('authorString', 'N/A').split(', ')[:3]
europepmc_authors(paper) ==
    first_three(str_split(get(paper.authors, NA), <<",", " ">>))

\* <Author> elements: two persons and a collective name, which has no LastName
AuthorElems == {
    [lastname |-> <<"D", "o", "e">>, forename |-> <<"A", "n", "n">>],
    [lastname |-> <<"R", "o", "e">>, forename |-> Missing],
    [lastname |-> Missing, forename |-> Missing]}

\* <PubmedArticle> elements: Year none, 2024, soon; Month none, 3, Mar,
\* Spring, 13; Day none, 5, 31, x; up to MaxAuthors <Author> elements
PubMedSources ==
    [source : {"PubMed"},
     year : {Missing, <<"2", "0", "2", "4">>, <<"s", "o", "o", "n">>},
     month : {Missing, <<"3">>, <<"M", "a", "r">>,
              <<"S", "p", "r", "i", "n", "g">>, <<"1", "3">>},
     day : {Missing, <<"5">>, <<"3", "1">>, <<"x">>},
     authors : SeqsUpTo(AuthorElems, MaxAuthors)]

\* "date" and "firstPublicationDate": absent, '', null, 2024-03-05,
\* 2024-13-05, March 5
JsonDates == {
    Missing, <<>>, None,
    <<"2", "0", "2", "4", "-", "0", "3", "-", "0", "5">>,
    <<"2", "0", "2", "4", "-", "1", "3", "-", "0", "5">>,
    <<"M", "a", "r", "c", "h", " ", "5">>}

\* entries of bioRxiv's "collection": "authors" absent, '', 'Doe, A.; Roe, B.',
\* 'A;B;C;D'
BioRxivSources ==
    [source : {"bioRxiv"}, date : JsonDates,
     authors : {Missing, <<>>,
        <<"D", "o", "e", ",", " ", "A", ".", ";", " ", "R", "o", "e", ",", " ", "B", ".">>,
        <<"A", ";", "B", ";", "C", ";", "D">>}]

\* Europe PMC results: "authorString" absent, '', 'Doe A, Roe B', 'A, B, C, D'
EuropePMCSources ==
    [source : {"Europe PMC"}, date : JsonDates,
     authors : {Missing, <<>>,
        <<"D", "o", "e", " ", "A", ",", " ", "R", "o", "e", " ", "B">>,
        <<"A", ",", " ", "B", ",", " ", "C", ",", " ", "D">>}]

InitNormalize ==
    /\ NoMain /\ NoAdapterLog /\ NoConsumer /\ NoWindow
    /\ source_record \in PubMedSources \cup BioRxivSources \cup EuropePMCSources
    /\ normalized = <<>>

\* search_pubmed: articles.append({...})
NormalizePubMed ==
    /\ normalized = <<>>
    /\ source_record.source = "PubMed"
    /\ normalized' = [source |-> "PubMed",
                      published |-> pubmed_published(source_record),
                      authors |-> pubmed_authors(source_record)]
    /\ UNCHANGED <<source_record, main_vars, adapter_vars, consumer_vars, gui_vars>>

\* search_biorxiv: articles.append({...})
NormalizeBioRxiv ==
    /\ normalized = <<>>
    /\ source_record.source = "bioRxiv"
    /\ normalized' = [source |-> "bioRxiv",
                      published |-> json_published(get(source_record.date, <<>>)),
                      authors |-> biorxiv_authors(source_record)]
    /\ UNCHANGED <<source_record, main_vars, adapter_vars, consumer_vars, gui_vars>>

\* search_europepmc: articles.append({...})
NormalizeEuropePMC ==
    /\ normalized = <<>>
    /\ source_record.source = "Europe PMC"
    /\ normalized' = [source |-> "Europe PMC",
                      published |-> json_published(get(source_record.date, <<>>)),
                      authors |-> europepmc_authors(source_record)]
    /\ UNCHANGED <<source_record, main_vars, adapter_vars, consumer_vars, gui_vars>>

NextNormalize == NormalizePubMed \/ NormalizeBioRxiv \/ NormalizeEuropePMC

SpecNormalize == InitNormalize /\ [][NextNormalize]_vars

\* ---------------------------------------------------------- properties

\* search_all has returned and rank_articles has not yet run
AfterDedup == pc = "rank_articles"

\* rank_articles has just returned (ranked and articles do not change later)
AfterRank == pc = "display_results"

\* the text of a title, '' for None
text_of(s) == IF s = None THEN <<>> ELSE s

\* query keyword number i occurs in the title or in the abstract of a
found(i, a) ==
    LET kw == str_lower(args_keywords[i])
    IN  \/ str_in(kw, str_lower(text_of(a.title)))
        \/ str_in(kw, str_lower(a.abstract))

found_at(a) == {i \in 1..Len(args_keywords) : found(i, a)}

\* the n-th index of a set of indices
nth(I, n) == CHOOSE i \in I : Cardinality({j \in I : j < i}) = n - 1

\* the query keywords at the indices I, lower-cased, in the query's order
keywords_at(I) ==
    [n \in 1..Cardinality(I) |-> str_lower(args_keywords[nth(I, n)])]

\* the places of the mapping: group g, position k
places ==
    UNION {{<<g, k>> : k \in 1..Len(ranked[g].articles)} : g \in 1..Len(ranked)}

at(gk) == ranked[gk[1]].articles[gk[2]]

places_of(a) == {gk \in places : at(gk) = a}

\* C1: the mapping rank_articles returns partitions the articles with a
\* score > 0: every such article is at exactly one place, in the group of
\* its score; the keys are distinct positive integers, no group is empty,
\* and the groups hold as many articles as have a score > 0.
C1_RankPartition ==
    AfterRank =>
        LET score_of == [j \in 1..Len(articles) |->
                            calculate_score(keywords, articles[j]).score]
        IN  /\ \A g \in 1..Len(ranked) :
                    /\ ranked[g].score \in Nat \ {0}
                    /\ ranked[g].articles # <<>>
                    /\ \A h \in 1..Len(ranked) :
                            ranked[h].score = ranked[g].score => h = g
            /\ \A j \in 1..Len(articles) :
                    score_of[j] > 0 =>
                        /\ Cardinality(places_of(articles[j])) = 1
                        /\ \A gk \in places_of(articles[j]) :
                                ranked[gk[1]].score = score_of[j]
            /\ Cardinality(places) =
                    Cardinality({j \in 1..Len(articles) : score_of[j] > 0})

\* two groups, one of them with two articles
C1_Witness ==
    /\ AfterRank
    /\ Len(ranked) = 2
    /\ Cardinality(places) = 3

\* C2: an article of the mapping has a score >= 1 that is the length of
\* its matched_keywords; an article in which no keyword is found is in no
\* group and carries no score.
C2_ScoreSound ==
    AfterRank =>
        /\ \A gk \in places :
                /\ at(gk).score >= 1
                /\ at(gk).score = Len(at(gk).matched_keywords)
        /\ \A j \in 1..Len(articles) :
                found_at(articles[j]) = {} =>
                    /\ "score" \notin DOMAIN articles[j]
                    /\ \A gk \in places : at(gk).title # articles[j].title

\* a ranked article beside one without a match
C2_Witness ==
    /\ AfterRank
    /\ ranked # <<>>
    /\ \E j \in 1..Len(articles) : found_at(articles[j]) = {}

\* C3: matched_keywords are the lower-cased query keywords that occur in
\* the lower-cased title or in the lower-cased abstract, in the order of
\* the query, whatever the case of the keyword and of the text; keyword
\* P53 and the title "p53 mutation in breast cancer" with an empty
\* abstract give score 1 and matched_keywords ["p53"].
C3_MatchedKeywords ==
    AfterRank =>
        \A j \in 1..Len(articles) :
            LET a == articles[j]
                I == found_at(a)
            IN  /\ ("score" \in DOMAIN a) = (I # {})
                /\ "score" \in DOMAIN a =>
                        /\ a.matched_keywords = keywords_at(I)
                        /\ a.score = Cardinality(I)
                /\ (args_keywords = <<KwP53>> /\ a.title = P53Title /\ a.abstract = <<>>) =>
                        /\ "score" \in DOMAIN a
                        /\ a.score = 1
                        /\ a.matched_keywords = <<AbsP53>>

\* the example of the claim, and a match in the abstract alone, in another case
C3_Witness ==
    /\ AfterRank
    /\ args_keywords = <<KwP53>>
    /\ \E j \in 1..Len(articles) :
            articles[j].title = P53Title /\ articles[j].abstract = <<>>
    /\ \E j \in 1..Len(articles) :
            /\ articles[j].title = StudyX
            /\ "score" \in DOMAIN articles[j]

\* C4: for every accepted keyword list, repeats included, the score is the
\* number of distinct query keywords found in the title or the abstract and
\* matched_keywords holds no keyword twice.
C4_DistinctKeywords ==
    AfterRank =>
        \A gk \in places :
            LET a == at(gk)
                distinct == {str_lower(args_keywords[i]) : i \in found_at(a)}
            IN  /\ a.score = Cardinality(distinct)
                /\ \A m, n \in 1..Len(a.matched_keywords) :
                        a.matched_keywords[m] = a.matched_keywords[n] => m = n

\* the dedup key of an article: its title lower-cased and trimmed
key_of(a) == str_strip(str_lower(a.title))

\* an article search_all is to discard: no title, an empty one, or 'N/A'
discarded(a) == a.title \in {None, <<>>, NA}

\* the inputs of search_all's dedup step that are not discarded
kept_inputs == {i \in 1..Len(all_articles) : ~discarded(all_articles[i])}

\* the kept inputs that are the same work as a
same_work(a) == {i \in kept_inputs : key_of(all_articles[i]) = key_of(a)}

\* those with the longest abstract among the inputs G
longest(G) ==
    {i \in G : \A h \in G :
        Len(all_articles[i].abstract) >= Len(all_articles[h].abstract)}

first_of(G) == CHOOSE i \in G : \A h \in G : i <= h

last_of(G) == CHOOSE i \in G : \A h \in G : h <= i

\* C5: the list search_all returns holds exactly one article for each
\* dedup key (title lower-cased and trimmed) of the inputs not discarded,
\* and every article of it is one of those inputs.
C5_OnePerKey ==
    AfterDedup =>
        /\ \A i \in kept_inputs :
                Cardinality({j \in 1..Len(articles) :
                    key_of(articles[j]) = key_of(all_articles[i])}) = 1
        /\ \A j \in 1..Len(articles) :
                \E i \in kept_inputs : articles[j] = all_articles[i]

\* "Study X" and "study x " came in and one record stands for both
C5_Witness ==
    /\ AfterDedup
    /\ \E i \in 1..Len(all_articles) : all_articles[i].title = StudyX
    /\ \E i \in 1..Len(all_articles) : all_articles[i].title = StudyXPadded
    /\ \E i \in 1..Len(all_articles) : all_articles[i].title = P53Title
    /\ Len(articles) = 2

\* C6 as claimed: the survivor of a dedup key has the longest abstract of
\* its group, and of several longest ones the last in the input is kept.
C6_LastOfLongest ==
    AfterDedup =>
        \A j \in 1..Len(articles) :
            articles[j] = all_articles[last_of(longest(same_work(articles[j])))]

\* C6 as amended: the survivor of a dedup key has the longest abstract of
\* its group, and of several longest ones the first in the input is kept.
C6_FirstOfLongest ==
    AfterDedup =>
        \A j \in 1..Len(articles) :
            articles[j] = all_articles[first_of(longest(same_work(articles[j])))]

\* a shorter abstract came first, then two different records tie for the longest
C6_Witness ==
    /\ AfterDedup
    /\ \E j \in 1..Len(articles) :
            LET G == same_work(articles[j])
                L == longest(G)
            IN  /\ all_articles[first_of(L)] # all_articles[last_of(L)]
                /\ first_of(G) \notin L

\* C7: deduplicating the list search_all returned gives the same articles
\* again: none dropped, none replaced, none added.
C7_DedupIdempotent ==
    AfterDedup =>
        LET again == deduplicate(articles)
        IN  /\ Len(again) = Len(articles)
            /\ {again[j] : j \in 1..Len(again)} =
                    {articles[j] : j \in 1..Len(articles)}

\* duplicates were collapsed, a title was skipped, and "N/A " survived
C7_Witness ==
    /\ AfterDedup
    /\ Len(articles) = 2
    /\ Cardinality(kept_inputs) = 2
    /\ Len(all_articles) = 3
    /\ \E j \in 1..Len(articles) : articles[j].title = NAPadded

\* C8: an article whose title is 'N/A', missing or empty is neither in the
\* list search_all returns nor in any group of rank_articles.
C8_NoSentinelTitle ==
    /\ \A j \in 1..Len(articles) : ~discarded(articles[j])
    /\ \A gk \in places : ~discarded(at(gk))

\* an 'N/A' record with both keywords in its abstract came in, other articles are ranked
C8_Witness ==
    /\ AfterRank
    /\ ranked # <<>>
    /\ \E i \in 1..Len(all_articles) :
            /\ all_articles[i].title = NA
            /\ found_at(all_articles[i]) # {}
    /\ \E i \in 1..Len(all_articles) : all_articles[i].title \in {None, <<>>}

\* C9: in every group of the mapping the articles are in descending order
\* of their published date.
C9_NewestFirst ==
    AfterRank =>
        \A g \in 1..Len(ranked) :
            \A k \in 1..(Len(ranked[g].articles) - 1) :
                ranked[g].articles[k].published >= ranked[g].articles[k + 1].published

\* articles dated 2, 3, 1 came in, in that order, and are one group 3, 2, 1
C9_Witness ==
    /\ AfterRank
    /\ [j \in 1..Len(articles) |-> articles[j].published] = <<2, 3, 1>>
    /\ Len(ranked) = 1
    /\ [k \in 1..Len(ranked[1].articles) |-> ranked[1].articles[k].published]
            = <<3, 2, 1>>

\* C10: when the keywords are found in no article, the mapping is empty,
\* the total is 0, display_results prints its no-articles line and main
\* returns 0, with or without --export.
C10_EmptyResult ==
    (/\ pc = "done"
     /\ exit_status # 2
     /\ \A j \in 1..Len(articles) : found_at(articles[j]) = {}) =>
        /\ ranked = <<>>
        /\ Cardinality(places) = 0
        /\ stdout = <<[line |-> "no_articles", n |-> 0]>>
        /\ exported # "raised"
        /\ exit_status = 0

\* articles were found, none with a keyword, and the export was asked for
C10_Witness ==
    /\ pc = "done"
    /\ articles # <<>>
    /\ \A j \in 1..Len(articles) : found_at(articles[j]) = {}
    /\ exported = "none"
    /\ exit_status = 0

\* the dict `unique` before input k is looked at
unique_before(k) == dedup_loop(<<>>, SubSeq(all_articles, 1, k - 1))

\* the entry of a key in the dict
entry_of(unique, key) == {i \in 1..Len(unique) : unique[i].key = key}

\* C16: while deduplicating, an incoming article (one with a valid title)
\* is stored under its key if and only if the key is unseen or its abstract
\* is strictly longer than the stored one's; an abstract of the same or a
\* smaller length leaves the stored article in place.
C16_StoredIffLonger ==
    AfterDedup =>
        /\ articles = [i \in 1..Len(unique_before(Len(all_articles) + 1)) |->
                            unique_before(Len(all_articles) + 1)[i].art]
        /\ \A k \in kept_inputs :
                LET incoming == all_articles[k]
                    key == key_of(incoming)
                    before == unique_before(k)
                    after == unique_before(k + 1)
                    unseen == entry_of(before, key) = {}
                    longer == \E i \in entry_of(before, key) :
                                Len(incoming.abstract) > Len(before[i].art.abstract)
                IN  IF unseen \/ longer
                    THEN /\ \E i \in entry_of(after, key) : after[i].art = incoming
                         /\ Cardinality(entry_of(after, key)) = 1
                    ELSE after = before

\* a different article with an equally long abstract and one with a shorter
\* abstract came after the stored one, which stays
C16_Witness ==
    /\ AfterDedup
    /\ Len(all_articles) = 3
    /\ Len(articles) = 1
    /\ Len(all_articles[1].abstract) = Len(all_articles[2].abstract)
    /\ all_articles[1] # all_articles[2]
    /\ articles[1] = all_articles[1]
    /\ Len(all_articles[3].abstract) < Len(all_articles[1].abstract)

\* C17: no article whose title is empty once trimmed, a title of
\* whitespace included, is in the list search_all returns.
C17_NoEmptyKey ==
    AfterDedup =>
        \A j \in 1..Len(articles) : str_strip(articles[j].title) # <<>>

\* the place of a ranked article in the list rank_articles was given
arrival(a) == CHOOSE j \in 1..Len(articles) : articles[j] = a

\* C18: two articles of one group with the same published date are in the
\* group in the order in which they were in the list given to rank_articles.
C18_StableSort ==
    AfterRank =>
        \A g \in 1..Len(ranked) :
            \A k1, k2 \in 1..Len(ranked[g].articles) :
                (/\ k1 < k2
                 /\ ranked[g].articles[k1].published = ranked[g].articles[k2].published)
                    => arrival(ranked[g].articles[k1]) < arrival(ranked[g].articles[k2])

\* an older article arrived between two of the same date, all in one group
C18_Witness ==
    /\ AfterRank
    /\ Len(ranked) = 1
    /\ Len(ranked[1].articles) = 3
    /\ ranked[1].articles[1].published = ranked[1].articles[2].published
    /\ arrival(ranked[1].articles[1]) = 1
    /\ arrival(ranked[1].articles[2]) = 3
    /\ arrival(ranked[1].articles[3]) = 2

\* the scores a consumer's output visits, in the order of the output
visited(lines) ==
    LET heads == SelectSeq(lines, LAMBDA l : l.line \in {"matches", "heading"})
    IN  [i \in 1..Len(heads) |-> heads[i].n]

strictly_descending(scores) ==
    \A i, j \in 1..Len(scores) : i < j => scores[i] > scores[j]

\* every key once, from the highest to the lowest
visits_in_order(scores) ==
    /\ strictly_descending(scores)
    /\ {scores[i] : i \in 1..Len(scores)} = group_keys(ranked)

\* the keys of the mapping were not inserted from the highest to the lowest
inserted_out_of_order ==
    \E g, h \in 1..Len(ranked) : g < h /\ ranked[g].score < ranked[h].score

\* C13: display_results, DocxExporter.export and the window's perform_search
\* each visit the score groups of the ranked mapping in strictly descending
\* score order, every group once, whatever the order in which the keys were
\* inserted into the mapping.
C13_DescendingGroups ==
    /\ "display_results" \in consumed => visits_in_order(visited(stdout))
    /\ "export" \in consumed => visits_in_order(visited(document))
    /\ "perform_search" \in consumed => visits_in_order(visited(results_text))

\* the three consumers have read a mapping of three groups whose keys were
\* inserted lowest first
C13_Witness ==
    /\ consumed = {"display_results", "export", "perform_search"}
    /\ Len(ranked) = 3
    /\ ranked[1].score < ranked[2].score /\ ranked[2].score < ranked[3].score
    /\ inserted_out_of_order
    /\ visited(stdout) = <<3, 2, 1>>
    /\ visited(document) = <<3, 2, 1>>
    /\ visited(results_text) = <<3, 2, 1>>

\* the adapters invoked so far, by name
adapters_called == [i \in 1..Len(calls) |-> calls[i].adapter]

AdapterOrder == <<"PubMed", "bioRxiv", "Europe PMC">>

\* search_all has called its last adapter
PastAdapters == pc \in {"deduplicate", "rank_articles", "display_results"}

\* main has left through its exception handler
Aborted == pc = "done" /\ exit_status = 1

\* C12: a failure of a source adapter (network error, non-200 status,
\* malformed payload) never aborts the query: the adapters are still invoked
\* in the order PubMed, bioRxiv, Europe PMC, and deduplication and ranking
\* proceed over what the adapters returned.
C12_FailureNeverAborts ==
    failed # {} =>
        /\ ~Aborted
        /\ adapters_called = SubSeq(AdapterOrder, 1, Len(calls))
        /\ PastAdapters => adapters_called = AdapterOrder
        /\ AfterDedup => articles = deduplicate(all_articles)
        /\ AfterRank => ranked = rank_articles(keywords, deduplicate(all_articles))

\* C11: through every entry point a query with a zero or negative lookback
\* window or with an empty keyword set is rejected before a source adapter
\* is invoked: every adapter invocation has days > 0 and at least one keyword.
C11_RejectedBeforeAdapters ==
    \A i \in 1..Len(calls) : calls[i].days > 0 /\ calls[i].keywords # <<>>

\* C14: a cancellation requested while the adapters of a search are still
\* fetching does not interrupt them: the worker leaves search_all only with
\* the three adapters invoked, and then discards the results: it computes no
\* ranking, logs no result lines and exports nothing.
C14_CancelDiscardsAfterFetch ==
    \A w \in 1..Len(workers) :
        workers[w].cancelled =>
            /\ workers[w].pc \notin {"begin", "rank", "export"}
            /\ workers[w].pc \notin Fetching => workers[w].fetched = AdapterOrder
            /\ ~workers[w].has_ranked
            /\ ~workers[w].has_logged
            /\ ~workers[w].has_exported

\* a search was cancelled while its adapters were fetching, and its worker
\* has gone through the three adapters and left without results
C14_Witness ==
    \E w \in 1..Len(workers) :
        /\ workers[w].cancelled
        /\ workers[w].pc = "exiting"
        /\ workers[w].fetched = AdapterOrder
        /\ ~workers[w].has_ranked
        /\ ~is_searching

\* the threads that have not ended
alive == {w \in 1..Len(workers) : workers[w].pc # "dead"}

\* the workers that have not yet queued search_complete
in_flight == {w \in alive : workers[w].pc # "exiting"}

\* C15 as stated: there is never more than one perform_search thread alive.
C15_OneThreadAlive == Cardinality(alive) <= 1

\* C15, amended: there is never more than one perform_search thread that has
\* not yet queued its search_complete callback; a thread that has queued it
\* may still be alive when the next one is started.
C15_OneQueryInFlight == Cardinality(in_flight) <= 1

\* the worker of a cancelled search is still alive, after its finally
\* block, while the worker of the next search is fetching
C15_Witness ==
    /\ Len(workers) = 2
    /\ workers[1].cancelled
    /\ workers[1].pc = "exiting"
    /\ workers[2].pc \in Fetching
    /\ Cardinality(alive) = 2
    /\ Cardinality(in_flight) = 1

\* the month text is a number from 1 to 12 or begins with the three letters
\* of an English month name
month_recognized(text) ==
    IF int_ok(text) THEN int_of(text) \in 1..12
    ELSE LET lower == str_lower(text)
         IN  \E m \in DOMAIN MonthNames :
                Len(lower) >= 3 /\ SubSeq(lower, 1, 3) = MonthNames[m]

\* the date of a record cannot be parsed: the year is missing, a component
\* is malformed or unrecognized, or the date string is not a date
date_unparsable(rec) ==
    IF rec.source = "PubMed"
    THEN \/ rec.year = Missing
         \/ ~int_ok(rec.year)
         \/ rec.month # Missing /\ ~month_recognized(rec.month)
         \/ rec.day # Missing /\ ~int_ok(rec.day)
    ELSE ~strptime_ok(get(rec.date, <<>>))

\* C19: when the publication date of a source record cannot be parsed (year
\* missing, a malformed or unrecognized month or day, an unparsable date
\* string), the article made of it has the current date as its published
\* value; this for PubMed, bioRxiv and Europe PMC alike.
C19_UnparsableDateIsNow ==
    normalized # <<>> /\ date_unparsable(source_record) =>
        normalized.published = Now

\* the contributors a record names, in source order
source_contributors(rec) ==
    IF rec.source = "PubMed"
    THEN LET named == SelectSeq(rec.authors,
                                LAMBDA author : author.lastname # Missing)
         IN  [i \in 1..Len(named) |-> author_name(named[i])]
    ELSE LET sep == IF rec.source = "bioRxiv" THEN <<";">> ELSE <<",", " ">>
             parts == str_split(get(rec.authors, <<>>), sep)
             names == [i \in 1..Len(parts) |-> str_strip(parts[i])]
         IN  SelectSeq(names, LAMBDA name : name # <<>>)

\* C20: every article an adapter produces has one to three authors, the
\* first contributors of the record in source order, and the single entry
\* 'N/A' when the record has no authors.
C20_AuthorsOneToThree ==
    normalized # <<>> =>
        LET contributors == source_contributors(source_record)
        IN  /\ Len(normalized.authors) \in 1..3
            /\ normalized.authors =
                    IF contributors = <<>> THEN <<NA>>
                    ELSE first_three(contributors)

\* ------------------------------------------------- a source that fails

\* the adapter that ran last, the answer it got and what it returned
last_call == calls[Len(calls)]

\* the first request of the run (esearch, or the one request of bioRxiv and
\* of Europe PMC) was not answered, or its body did not decode
first_request_failed ==
    \/ source_record.outcome \in {"network_error", "bad_status"}
    \/ source_record.outcome = "malformed" /\ source_record.response = <<>>

\* the run of the adapter met a failure at some point
run_failed ==
    \/ source_record.outcome # "ok"
    \/ /\ last_call.adapter = "PubMed"
       /\ \E i \in 1..Len(source_record.response) :
            /\ source_record.response[i].outcome # "ok"
            /\ \A j \in 1..(i - 1) :
                    source_record.response[j].outcome # "network_error"

\* the elements of the batches PubMed answered before a request raised
answered_elements ==
    LET batches == source_record.response
    IN  {<<i, k>> \in (1..Len(batches)) \X (1..MaxArticles) :
            /\ k <= Len(batches[i].response)
            /\ \A j \in 1..i : batches[j].outcome # "network_error"}

\* the preprints bioRxiv sent before the first one that cannot be read
read_preprints ==
    LET response == source_record.response
    IN  {i \in 1..Len(response) :
            \A j \in 1..i : response[j].title # None /\ response[j].abstract # None}

\* C21, as stated: an adapter whose run fails at any point (a network error,
\* a bad status, a malformed payload, also in a later PubMed batch after
\* earlier ones succeeded) returns no record at all.
C21_FailedSourceGivesNothing ==
    (calls # <<>> /\ run_failed) => normalized = <<>>

\* C21, amended: a source whose first request fails contributes nothing;
\* a failure later in the run costs only what was not processed yet: PubMed
\* returns one article for each element of the batches answered before a
\* request raised, and bioRxiv returns only preprints it read before the
\* one that cannot be read.
C21_FailedSourceGivesProcessed ==
    (calls # <<>> /\ run_failed) =>
        /\ first_request_failed => normalized = <<>>
        /\ (last_call.adapter = "PubMed" /\ ~first_request_failed) =>
                Len(normalized) = Cardinality(answered_elements)
        /\ (last_call.adapter = "bioRxiv" /\ ~first_request_failed) =>
                /\ Len(normalized) <= Cardinality(read_preprints)
                /\ \A k \in 1..Len(normalized) :
                        \E i \in read_preprints :
                            normalized[k] = biorxiv_article(source_record.response[i])

\* a second PubMed batch is not answered after the first gave an article,
\* and the article is returned
C21_Witness ==
    /\ calls # <<>>
    /\ last_call.adapter = "PubMed"
    /\ Len(source_record.response) = 2
    /\ source_record.response[1].outcome = "ok"
    /\ source_record.response[2].outcome = "network_error"
    /\ Len(normalized) = 1
    /\ Len(all_articles) = 1

\* ------------------------------------------------ what the stages change

\* an article without what rank_articles attaches
content(a) == [f \in DOMAIN a \ {"score", "matched_keywords"} |-> a[f]]

\* the records the adapters returned
inputs == {all_articles[i] : i \in 1..Len(all_articles)}

\* C22: scoring and deduplication do not alter article content: what
\* search_all returns are input records as the adapters made them, field for
\* field; after rank_articles an article differs from its input record at
\* most by a score and matched_keywords, an article in which no keyword is
\* found is exactly its input record, the articles of the mapping are
\* articles of the list, and the searcher's keywords are still the
\* lower-cased query keywords.
C22_ContentUnchanged ==
    /\ AfterDedup => \A j \in 1..Len(articles) : articles[j] \in inputs
    /\ AfterRank =>
        /\ \A j \in 1..Len(articles) :
                /\ content(articles[j]) \in inputs
                /\ found_at(articles[j]) = {} => articles[j] \in inputs
                /\ found_at(articles[j]) # {} =>
                        DOMAIN articles[j] =
                            DOMAIN content(articles[j])
                                \cup {"score", "matched_keywords"}
        /\ \A gk \in places : \E j \in 1..Len(articles) : at(gk) = articles[j]
    /\ (AfterDedup \/ AfterRank) =>
            keywords = [i \in 1..Len(args_keywords) |-> str_lower(args_keywords[i])]

\* a duplicate was dropped, one survivor got a score and one has no match
C22_Witness ==
    /\ AfterRank
    /\ Len(articles) < Len(all_articles)
    /\ \E j, k \in 1..Len(articles) :
            /\ "score" \in DOMAIN articles[j]
            /\ articles[j].title # str_lower(articles[j].title)
            /\ "score" \notin DOMAIN articles[k]

\* ------------------------------------------------- the life of a search

\* the thread of search w has nothing left to run
finished(w) == Len(workers) >= w /\ workers[w].pc \in {"exiting", "dead"}

\* the window as search_complete leaves it
Idle ==
    /\ search_button = "normal"
    /\ cancel_button = "disabled"
    /\ ~progress_active
    /\ ~is_searching

\* C23: every search that is started completes its lifecycle: whether
\* perform_search finishes normally, returns early after a cancellation or
\* raises, its thread comes to its end and search_complete is run, which
\* leaves the search button enabled, the cancel button disabled, the
\* progress animation stopped and is_searching False.
C23_SearchCompletes ==
    \A w \in 1..MaxSearches : (Len(workers) >= w) ~> (finished(w) /\ Idle)

\* the exporter raised after the results were logged, and the window is
\* back to idle
C23_Witness ==
    \E w \in 1..Len(workers) :
        /\ workers[w].pc = "exiting"
        /\ workers[w].has_ranked
        /\ ~workers[w].has_completed
        /\ Idle

\* ------------------------------------------------- the two buttons

\* a step that starts a search, in any of its effects
starts_searching ==
    \/ Len(workers') > Len(workers)
    \/ is_searching' /\ ~is_searching
    \/ progress_active' /\ ~progress_active
    \/ search_button' # search_button /\ search_button = "normal"
    \/ cancel_button' # cancel_button /\ cancel_button = "disabled"

\* C24: in every state of the window exactly one of the search button and
\* the cancel button is enabled, and while is_searching is True the cancel
\* button is enabled and the search button disabled; a click on the search
\* button with an empty keyword list, which validate_inputs refuses, changes
\* neither is_searching nor the buttons nor the progress state and starts
\* no thread.
C24_OneButtonEnabled ==
    /\ [](/\ (search_button = "normal") # (cancel_button = "normal")
          /\ is_searching =>
                cancel_button = "normal" /\ search_button = "disabled")
    /\ [][starts_searching => keywords_list # <<>>]_vars

\* a second search is running, its keyword removed after the click
C24_Witness ==
    /\ Len(workers) = 2
    /\ is_searching
    /\ progress_active
    /\ cancel_button = "normal"
    /\ search_button = "disabled"
    /\ keywords_list = <<>>

\* ------------------------------------------------- cancelling and keywords

\* from the start of the thread to the last statement of perform_search
Running == {"begin", "check", "rank", "export", "finally"} \cup Fetching

\* C25: once cancel_search has been invoked while the worker of a search is
\* still running (is_searching is False and the thread has not yet run its
\* last statement), that search performs no export and logs no
\* "Search completed".
C25_CancelStopsExport ==
    [][\A w \in 1..Len(workers) :
            (~is_searching /\ workers[w].pc \in Running) =>
                /\ workers'[w].has_exported => workers[w].has_exported
                /\ workers'[w].has_completed => workers[w].has_completed]_vars

\* the worker has not yet read is_searching after search_all
BeforeCheck == {"begin", "check"} \cup Fetching

\* C25, amended: a cancel_search invoked before the worker has read
\* is_searching keeps the search from exporting and from logging "Search
\* completed": the flag stays False until the worker reads it, the worker
\* then goes to its finally block without ranking, and from the finally
\* block on nothing is exported or logged as completed.
C25_EarlyCancelStopsExport ==
    [][\A w \in 1..Len(workers) :
            /\ (~is_searching /\ workers[w].pc \in BeforeCheck) =>
                    /\ ~is_searching'
                    /\ workers'[w].pc \in BeforeCheck \cup {"finally"}
                    /\ ~workers'[w].has_ranked
                    /\ ~workers'[w].has_exported
                    /\ ~workers'[w].has_completed
            /\ workers[w].pc \in {"finally", "exiting", "dead"} =>
                    /\ workers'[w].pc \in {"finally", "exiting", "dead"}
                    /\ workers'[w].has_exported => workers[w].has_exported
                    /\ workers'[w].has_completed => workers[w].has_completed]_vars

\* the adapters have returned and the search was cancelled before the first
\* adapter or after the last: the worker is about to read the flag
C25_Witness ==
    \E w \in 1..Len(workers) :
        /\ workers[w].pc = "check"
        /\ ~is_searching
        /\ ~workers[w].cancelled
        /\ workers[w].fetched = AdapterOrder

\* C26: the keywords of a search are those of the click: the searcher of
\* the worker has the keywords validate_inputs saw (lower-cased by the
\* searcher), and the header of the exported document lists them, whatever
\* add_keyword and remove_keyword do while the worker runs.
C26_KeywordsFixedAtClick ==
    \A w \in 1..Len(workers) :
        LET validated == workers[w].validated
        IN  /\ workers[w].pc \notin {"begin", "dead"} =>
                    workers[w].keywords =
                        [i \in 1..Len(validated) |-> str_lower(validated[i])]
            /\ workers[w].has_exported => workers[w].doc_keywords = validated

\* ------------------------------------------------- the keyword list

\* C27: after any sequence of add_keyword and remove_keyword, keywords_list
\* has no empty entry, no entry with white space around it and no two equal
\* entries, and the listbox shows the same entries in the same order; the
\* list changes only by one new, non-empty, stripped entry at its end or by
\* the deletion of one entry, so an add_keyword with an empty or
\* already-present keyword leaves it unchanged.
C27_KeywordsClean ==
    /\ [](/\ keywords_listbox = keywords_list
          /\ \A i \in 1..Len(keywords_list) :
                /\ keywords_list[i] # <<>>
                /\ str_strip(keywords_list[i]) = keywords_list[i]
                /\ \A j \in 1..Len(keywords_list) :
                        keywords_list[j] = keywords_list[i] => j = i)
    /\ [][keywords_list' # keywords_list =>
            LET n == Len(keywords_list)
            IN  \/ /\ Len(keywords_list') = n + 1
                   /\ SubSeq(keywords_list', 1, n) = keywords_list
                   /\ \A i \in 1..n : keywords_list[i] # keywords_list'[n + 1]
                \/ /\ Len(keywords_list') = n - 1
                   /\ \E k \in 1..n :
                        \A i \in 1..(n - 1) :
                            keywords_list'[i] =
                                keywords_list[IF i < k THEN i ELSE i + 1]]_vars

\* three keywords in the list and in the listbox, two of them differing in
\* case only
C27_Witness ==
    /\ keywords_list = <<KwCancer, str_lower(KwP53), KwP53>>
    /\ keywords_listbox = keywords_list

====
